---- MODULE Spec2Model ----
(***************************************************************************)
(* A model of the mos-chinadns query dispatcher.                           *)
(*                                                                         *)
(* Two revisions of package dispatcher are in the source tree:             *)
(*   - src/dispatcher/dispatcher.go: ServeDNS with the answer cache and    *)
(*     the TTL rewrite, dispatch with pooled channels and a cleanup        *)
(*     goroutine (specification Spec);                                     *)
(*   - src/dispatcher/domainlist/load_helper.go (second half): ServeDNS    *)
(*     that answers SERVFAIL when all upstreams failed, Dispatch with      *)
(*     fresh channels (specification SpecD).                               *)
(* One ServeDNS call is followed at a time: its goroutines (one per        *)
(* upstream, the notifier, dispatch itself) interleave freely, before and  *)
(* after ServeDNS returns. The next call is started once they have all     *)
(* ended: the goroutines a returned call leaves behind touch nothing a     *)
(* later call reads (neither the cache nor the clock), so starting it      *)
(* earlier reaches no other state of the later call.                       *)
(*                                                                         *)
(* The environment of a behaviour (the queries clients send, the record    *)
(* sets the upstream servers answer with) is fixed by Init. Spec and SpecD *)
(* race up to MaxUpstreams upstreams over plain data; SpecCache runs the   *)
(* cache and the TTL rewrite of dispatcher.go over all the data with one   *)
(* upstream.                                                               *)
(*                                                                         *)
(* The domain list loader of load_helper.go (NewListFormReader) is         *)
(* specification SpecList: it runs before any query and shares no state     *)
(* with a dispatch. The start-up code (main of src/main.go, InitDispatcher  *)
(* and StartServer) is specifications SpecMain and SpecServer: the          *)
(* listeners StartServer starts are followed up to their exit, the queries  *)
(* they serve are the ServeDNS calls of the other specifications.           *)
(*                                                                         *)
(* Concurrent ServeDNS calls meet in the cache only. SpecHits follows      *)
(* MaxCallers of them through tryGetFromCache, statement by statement, on  *)
(* a cache that holds what one served query left.                          *)
(*                                                                         *)
(* SpecFair, SpecReturning, SpecDReturning and SpecServerFair add the      *)
(* scheduling of the goroutines that are ready to run.                     *)
(***************************************************************************)
EXTENDS Integers, Sequences, FiniteSets, TLC

(* ------------------------------ bounds -------------------------------- *)
MaxUpstreams == 2
NumNames == 1
MaxId == 2
MaxQuestions == 2
MaxTTL == 1
MaxAnswer == 2
MaxExtra == 1
MaxMinTTL == 1
MaxCacheSize == 1
MaxTime == 1
MaxLineLen == 3
MaxLines == 2
MaxBindLen == 3
MaxBind == 2
MaxConfUpstreams == 2
MaxCallers == 2

(* ------------------------- program constants -------------------------- *)
RcodeSuccess == 0
RcodeServerFailure == 2

VARIABLES
    minTTL,      \* d.minTTL (conf.Dispatcher.MinTTL)
    cacheSize,   \* conf.Dispatcher.Cache.Size; 0: d.cache.Cache is nil
    upstreams,   \* the keys of d.upstreams, a non-empty set
    queries,     \* environment: the queries clients send
    shapes,      \* environment: the record sets upstream servers answer with
    now,         \* time.Now(), in seconds
    cache,       \* the entries of d.cache: [key, msg, expireAt]
    pc,          \* position of the ServeDNS goroutine
    q,           \* the query of the call
    ctxErr,      \* ctx.Err(): "nil" until the context is done
    up,          \* position/outcome of each upstream goroutine of the dispatch
    resChan,     \* the one-slot result channel
    failChan,    \* upstreamFailedNotificationChan: pending notices (0 or 1)
    notifier,    \* position of the notifier/cleanup goroutine
    ret,         \* what ServeDNS returned: [r, err] and how it got there
    probe,       \* did: what tryGetFromCache did in this call; before: the
                 \* entries of d.cache when it was called; live: the cache
                 \* held a live entry for the first question at the call
    inTime,      \* some Exchange returned an accepted reply while ctx was not done
    callers,     \* concurrent ServeDNS calls in tryGetFromCache: [pc, q, r]
    lines,       \* NewListFormReader: the lines s.Scan() yields from r
    continueOnInvalidString,
    lineCounter,
    l,           \* the List l: the strings l.Add was given
    loadRet,     \* what NewListFormReader returned: "list", "err"; "none" before
    args,        \* main: the flags, the files and the configuration they name
    mainPc,      \* main: the statement it is at
    exitCode,    \* the code the process exited with, -1 while it runs
    logged,      \* main: what the process said last before it exited
    srvPc,       \* StartServer: "none", "called", "loop", "wait", "returned"
    bindPos,     \* StartServer: the bind addresses the loop has gone through
    listeners,   \* the listener of each bind address and its goroutine
    errChan,     \* StartServer: the one-slot errChan
    srvErr       \* StartServer: the error it returned

\* the domain list loader
loader == <<lines, continueOnInvalidString, lineCounter, l, loadRet>>

\* main and StartServer
starting == <<args, mainPc, exitCode, logged, srvPc, bindPos, listeners, errChan, srvErr>>

\* the dispatcher and its calls
dispatching == <<minTTL, cacheSize, upstreams, queries, shapes, now, cache, pc, q, ctxErr,
                 up, resChan, failChan, notifier, ret, probe, inTime, callers>>

vars == <<dispatching, loader, starting>>

\* what no step of the ServeDNS call that dispatches changes: the
\* configuration of the dispatcher, the state of the start-up code and the
\* calls that are in tryGetFromCache
config == <<minTTL, cacheSize, upstreams, queries, shapes, loader, starting, callers>>

(* ------------------------------- data --------------------------------- *)
Names == 1..NumNames
Ids == 1..MaxId
TTLs == 0..MaxTTL
AllUpstreams == 1..MaxUpstreams

SeqsUpTo(S, n) == UNION {[1..k -> S] : k \in 0..n}

Questions == SeqsUpTo(Names, MaxQuestions)

\* dns.Msg as a query: transaction id, question section, ECS option present
Queries == [id : Ids, question : Questions, ecs : BOOLEAN]

NoQuery == [id |-> 1, question |-> <<>>, ecs |-> FALSE]

\* dns.Msg as a reply. answer: the TTLs of the Answer section; extra: the TTLs
\* of the Authority and Additional sections; from: the upstream whose
\* Exchange produced the message ({} for a message built locally).
Msg(id, question, rcode, answer, extra, from) ==
    [id |-> id, question |-> question, rcode |-> rcode,
     answer |-> answer, extra |-> extra, from |-> from]

\* The record sets a reply may carry: RCODE, Answer TTLs, other TTLs
Shapes ==
    [rcode : {RcodeSuccess, RcodeServerFailure},
     answer : SeqsUpTo(TTLs, MaxAnswer),
     extra : SeqsUpTo(TTLs, MaxExtra)]

PlainShapes ==
    {[rcode |-> RcodeSuccess, answer |-> <<MaxTTL>>, extra |-> <<>>],
     [rcode |-> RcodeServerFailure, answer |-> <<>>, extra |-> <<>>]}

\* queries with one question and no ECS option
PlainQueries == {qq \in Queries : Len(qq.question) = 1 /\ ~qq.ecs}

\* The replies an Exchange of upstream u may return for query qq: the id and
\* the question section are the query's.
UpstreamReplies(qq, u) ==
    {Msg(qq.id, qq.question, s.rcode, s.answer, s.extra, {u}) : s \in shapes}

\* ServeDNS's results (r, err); ctxAtSelect: ctx.Err() when the select chose
NoRet == [r |-> <<>>, err |-> "nil", ctxAtSelect |-> "nil"]

NoProbe == [did |-> "none", live |-> FALSE, before |-> {}]

Callers == 1..MaxCallers

\* r of a call that holds no reply
NoReply == [shared |-> FALSE, key |-> 0, msg |-> <<>>]

NoCaller == [pc |-> "idle", q |-> NoQuery, r |-> NoReply]

Range(s) == {s[i] : i \in DOMAIN s}

Min(S) == CHOOSE x \in S : \A y \in S : x <= y

(* ------------------------------ MsgCodec ------------------------------ *)
\* utils.GetAnswerMinTTL: minimum TTL across the Answer section, 0 if empty
GetAnswerMinTTL(m) ==
    IF m.answer = <<>> THEN 0 ELSE Min(Range(m.answer))

\* utils.SetAnswerTTL: overwrite the TTL of every RR of the message
SetAnswerTTL(m, ttl) ==
    [m EXCEPT !.answer = [i \in DOMAIN m.answer |-> ttl],
              !.extra = [i \in DOMAIN m.extra |-> ttl]]

\* checkMsgHasECS
checkMsgHasECS(qq) == qq.ecs

\* dns.Msg.SetReply: id copied, the first question (if any) copied
SetReply(qq) ==
    Msg(qq.id,
        IF Len(qq.question) > 0 THEN <<qq.question[1]>> ELSE <<>>,
        RcodeSuccess, <<>>, <<>>, {})

(* -------------------------------- Cache ------------------------------- *)
Live(c, t) == {e \in c : t < e.expireAt}

\* cache.Get: the live entry of key k, if any
CacheGet(c, k, t) == {e \in Live(c, t) : e.key = k}

\* cache.Get evicts the entry it finds expired
CacheAfterGet(c, k, t) == {e \in c : e.key # k \/ t < e.expireAt}

\* cache.Add: expired entries go first, the key's old entry is replaced, and
\* when the cache is still full some entry is evicted. The possible caches.
CacheAdd(c, k, m, expireAt, t, size) ==
    LET kept == {e \in Live(c, t) : e.key # k}
        new == [key |-> k, msg |-> m, expireAt |-> expireAt]
    IN  IF Cardinality(kept) < size
        THEN {kept \cup {new}}
        ELSE {(kept \ {v}) \cup {new} : v \in kept}

(* ------------------------ dispatcher.go: ServeDNS --------------------- *)
\* tryGetFromCache, the guard of line 126: TRUE when the cache is not used
CacheBypass(qq) == Len(qq.question) = 1 \/ checkMsgHasECS(qq) = TRUE

\* tryGetFromCache: "skip" (return nil at line 127), "fault" (q.Question[0]
\* of an empty question section), "hit" or "miss"
tryGetFromCache(qq, c, t) ==
    IF CacheBypass(qq) THEN "skip"
    ELSE IF Len(qq.question) = 0 THEN "fault"
    ELSE IF CacheGet(c, qq.question[1], t) # {} THEN "hit"
    ELSE "miss"

\* mutant: the floor is not applied
ClampTTL_NoFloor(ttl, floor) == ttl

\* lines 112-115: ttl := GetAnswerMinTTL(r); if ttl < d.minTTL { ttl = d.minTTL }
ClampTTL(ttl, floor) == IF ttl < floor THEN floor ELSE ttl

\* mutant: the RCODE is not looked at
CacheEligible_AnyRcode(r) == Len(r.question) = 1

\* tryAddToCache, the guard of line 142
CacheEligible(r) == Len(r.question) = 1 /\ r.rcode = RcodeSuccess

\* mutant: the entry expires at the time.Now() of the insertion
tryAddToCache_NoLifetime(r, ttl, c, t, size) ==
    IF CacheEligible(r)
    THEN CacheAdd(c, r.question[1], r, t, t, size)
    ELSE {c}

\* tryAddToCache: the caches that may result
tryAddToCache(r, ttl, c, t, size) ==
    IF CacheEligible(r)
    THEN CacheAdd(c, r.question[1], r, t + ttl, t, size)
    ELSE {c}

\* mutant: the send replaces what the slot holds
Publish_Overwrite(ch, r) == <<r>>

\* mutant: the channel takes a second reply behind the first
Publish_Append(ch, r) == Append(ch, r)

\* non-blocking send on a one-slot channel: select { case ch <- r: default: }
Publish(ch, r) == IF Len(ch) = 0 THEN <<r>> ELSE ch

\* what the upstream goroutine did with an accepted reply
PublishOutcome(ch) == IF Len(ch) = 0 THEN "sent" ELSE "dropped"

\* mutant: the notifier goes on as soon as one upstream goroutine has returned
AllReturned_AnyOne == \E u \in upstreams : up[u] # "running"

\* every upstream goroutine has returned (upstreamWG.Wait() passes)
AllReturned == \A u \in upstreams : up[u] # "running"

\* no goroutine of an earlier dispatch is left
Quiet ==
    /\ \A u \in upstreams : up[u] # "running"
    /\ notifier \in {"none", "done"}

\* a ServeDNS call may start
CanServe == pc = "idle" \/ (pc = "returned" /\ Quiet)

\* the goroutines of a dispatch start: lines 155-190
StartDispatch ==
    /\ up' = [u \in AllUpstreams |-> IF u \in upstreams THEN "running" ELSE "none"]
    /\ resChan' = <<>>
    /\ failChan' = 0
    /\ notifier' = "waitUpstreams"
    /\ pc' = "select"

NoDispatch ==
    /\ up' = [u \in AllUpstreams |-> "none"]
    /\ resChan' = <<>>
    /\ failChan' = 0
    /\ notifier' = "none"

\* ServeDNS from its entry to dispatch's select (lines 95-106, 153-211)
ServeDNS_Begin ==
    /\ CanServe
    /\ \E qq \in queries :
        /\ q' = qq
        /\ ctxErr' = "nil"
        /\ inTime' = FALSE
        /\ IF cacheSize > 0
           THEN LET res == tryGetFromCache(qq, cache, now) IN
                /\ probe' = [did |-> res,
                             live |-> Len(qq.question) > 0
                                      /\ CacheGet(cache, qq.question[1], now) # {},
                             before |-> cache]
                /\ CASE res = "hit" ->
                          /\ \E e \in CacheGet(cache, qq.question[1], now) :
                                ret' = [NoRet EXCEPT !.r = <<[e.msg EXCEPT !.id = qq.id]>>]
                          /\ cache' = cache
                          /\ pc' = "returned"
                          /\ NoDispatch
                     [] res = "fault" ->
                          /\ ret' = NoRet
                          /\ cache' = cache
                          /\ pc' = "panicked"
                          /\ NoDispatch
                     [] res = "miss" ->
                          /\ ret' = NoRet
                          /\ cache' = CacheAfterGet(cache, qq.question[1], now)
                          /\ StartDispatch
                     [] OTHER ->
                          /\ ret' = NoRet
                          /\ cache' = cache
                          /\ StartDispatch
           ELSE /\ probe' = [did |-> "nocache", live |-> FALSE, before |-> cache]
                /\ ret' = NoRet
                /\ cache' = cache
                /\ StartDispatch
    /\ UNCHANGED <<config, now>>

\* one upstream goroutine of dispatch, from Exchange's return to its end
\* (lines 168-188)
dispatch_upstream(u) ==
    /\ pc \in {"select", "returned"}
    /\ u \in upstreams
    /\ up[u] = "running"
    /\ \/ /\ up' = [up EXCEPT ![u] = "failed"]          \* err != nil
          /\ UNCHANGED <<resChan, inTime>>
       \/ /\ up' = [up EXCEPT ![u] = "rejected"]        \* r == nil, err == nil
          /\ UNCHANGED <<resChan, inTime>>
       \/ \E r \in UpstreamReplies(q, u) :              \* r != nil, err == nil
          /\ resChan' = Publish(resChan, r)
          /\ up' = [up EXCEPT ![u] = PublishOutcome(resChan)]
          /\ inTime' = (inTime \/ ctxErr = "nil")
    /\ UNCHANGED <<config, now, cache, pc, q, ctxErr, failChan, notifier, ret, probe>>

\* mutant: the failure is never notified
NotifyFailed_Never(ch) == FALSE

\* mutant: the failure is notified whatever the result channel holds
NotifyFailed_Always(ch) == TRUE

\* mutant: the test of the result channel is inverted
NotifyFailed_Inverted(ch) == Len(ch) # 0

\* the notifier's test of line 199
NotifyFailed(ch) == Len(ch) = 0

\* the notifier goroutine after upstreamWG.Wait() (lines 196-201)
dispatch_notify ==
    /\ notifier = "waitUpstreams"
    /\ AllReturned
    /\ failChan' = IF NotifyFailed(resChan) THEN 1 ELSE failChan
    /\ notifier' = "waitDispatch"
    /\ UNCHANGED <<config, now, cache, pc, q, ctxErr, up, resChan, ret, probe, inTime>>

\* mutant: the cleanup does not wait for dispatch
DispatchReturned_NoWait(p) == TRUE

\* dispatch has returned (exchangeDNSWG.Wait() passes, line 204)
DispatchReturned(p) == p = "returned"

\* the notifier goroutine after exchangeDNSWG.Wait() (lines 204-209): the
\* request logger and both channels go back to their pools
dispatch_cleanup ==
    /\ notifier = "waitDispatch"
    /\ DispatchReturned(pc)
    /\ notifier' = "done"
    /\ UNCHANGED <<config, now, cache, pc, q, ctxErr, up, resChan, failChan, ret,
                   probe, inTime>>

\* mutant: the select has no case for ctx.Done()
SelectReady_NoCtx ==
    (IF Len(resChan) > 0 THEN {"res"} ELSE {})
    \cup (IF failChan > 0 THEN {"failed"} ELSE {})

\* the cases of dispatch's select that can proceed (lines 212-219)
SelectReady ==
    (IF Len(resChan) > 0 THEN {"res"} ELSE {})
    \cup (IF failChan > 0 THEN {"failed"} ELSE {})
    \cup (IF ctxErr # "nil" THEN {"ctx"} ELSE {})

\* mutant: a win cancels the context of the siblings
ctxAfterSelect_CancelOnWin(err, branch) ==
    IF branch = "res" /\ err = "nil" THEN "Canceled" ELSE err

\* dispatch returns from its select without cancelling anything: it holds
\* no cancel function of ctx (lines 212-219)
ctxAfterSelect(err, branch) == err

\* mutant: ServeDNS caches an empty reply to the query when dispatch failed
CacheOnError_Insert(c, qq, t, size) ==
    IF Len(qq.question) > 0
    THEN CacheAdd(c, qq.question[1], SetReply(qq), t + 1, t, size)
    ELSE {c}

\* lines 107-109: if err != nil { return nil, err }, before anything is done
\* with d.cache: the caches that may result
CacheOnError(c, qq, t, size) == {c}

\* dispatch's select and the rest of ServeDNS (lines 212-219, 106-121)
dispatch_select ==
    /\ pc = "select"
    /\ \E branch \in SelectReady :
      /\ ctxErr' = ctxAfterSelect(ctxErr, branch)
      /\
        CASE branch = "res" ->
               LET m == Head(resChan)
                   ttl == ClampTTL(GetAnswerMinTTL(m), minTTL)
                   r == SetAnswerTTL(m, ttl)
               IN  /\ resChan' = Tail(resChan)
                   /\ failChan' = failChan
                   /\ IF cacheSize > 0
                      THEN cache' \in tryAddToCache(r, ttl, cache, now, cacheSize)
                      ELSE cache' = cache
                   /\ ret' = [NoRet EXCEPT !.r = <<r>>, !.ctxAtSelect = ctxErr]
          [] branch = "failed" ->
               /\ failChan' = failChan - 1
               /\ ret' = [NoRet EXCEPT !.err = "ErrUpstreamsFailed", !.ctxAtSelect = ctxErr]
               /\ cache' \in CacheOnError(cache, q, now, cacheSize)
               /\ UNCHANGED resChan
          [] OTHER ->
               /\ ret' = [NoRet EXCEPT !.err = ctxErr, !.ctxAtSelect = ctxErr]
               /\ cache' \in CacheOnError(cache, q, now, cacheSize)
               /\ UNCHANGED <<resChan, failChan>>
    /\ pc' = "returned"
    /\ UNCHANGED <<config, now, q, up, notifier, probe, inTime>>

\* the caller cancels the context, or its deadline elapses
CtxDone ==
    /\ pc = "select" \/ (pc = "returned" /\ \E u \in upstreams : up[u] = "running")
    /\ ctxErr = "nil"
    /\ ctxErr' \in {"Canceled", "DeadlineExceeded"}
    /\ UNCHANGED <<config, now, cache, pc, q, up, resChan, failChan, notifier, ret,
                   probe, inTime>>

\* a second passes
Tick ==
    /\ pc # "panicked"
    /\ now < MaxTime
    /\ now' = now + 1
    /\ UNCHANGED <<config, cache, pc, q, ctxErr, up, resChan, failChan, notifier,
                   ret, probe, inTime>>

(* ---------- dispatcher.go: concurrent calls in tryGetFromCache -------- *)
\* what the calls in tryGetFromCache leave alone
elsewhere == <<minTTL, cacheSize, upstreams, queries, shapes, loader, starting,
               pc, q, ctxErr, up, resChan, failChan, notifier, ret, probe, inTime>>

\* mutant: cache.Get hands out the message the cache holds
CacheGetResult_Shared(e) == [shared |-> TRUE, key |-> e.key, msg |-> e.msg]

\* cache.Get on a live entry: the stored bytes are unpacked into a message
\* of the caller's own
CacheGetResult(e) == [shared |-> FALSE, key |-> e.key, msg |-> e.msg]

\* the message r points at
Deref(r, c) ==
    IF r.shared /\ \E e \in c : e.key = r.key
    THEN (CHOOSE e \in c : e.key = r.key).msg
    ELSE r.msg

\* ServeDNS is called with a query (line 95)
ServeDNS_Call(c) ==
    /\ cacheSize > 0
    /\ callers[c].pc \in {"idle", "returned"}
    /\ \E qq \in queries : callers' = [callers EXCEPT ![c] = [pc |-> "probe", q |-> qq, r |-> NoReply]]
    /\ UNCHANGED <<elsewhere, cache, now>>

\* tryGetFromCache up to d.cache.Get (lines 99-100, 126-130)
tryGetFromCache_Get(c) ==
    /\ callers[c].pc = "probe"
    /\ LET qq == callers[c].q
           res == tryGetFromCache(qq, cache, now)
       IN  CASE res = "hit" ->
                  /\ \E e \in CacheGet(cache, qq.question[1], now) :
                        callers' = [callers EXCEPT ![c].pc = "setId",
                                                   ![c].r = CacheGetResult(e)]
                  /\ cache' = cache
             [] res = "miss" ->
                  /\ callers' = [callers EXCEPT ![c].pc = "dispatch"]
                  /\ cache' = CacheAfterGet(cache, qq.question[1], now)
             [] res = "fault" ->
                  /\ callers' = [callers EXCEPT ![c].pc = "panicked"]
                  /\ cache' = cache
             [] OTHER ->
                  /\ callers' = [callers EXCEPT ![c].pc = "dispatch"]
                  /\ cache' = cache
    /\ UNCHANGED <<elsewhere, now>>

\* r.Id = q.Id (line 131)
tryGetFromCache_SetId(c) ==
    /\ callers[c].pc = "setId"
    /\ LET r == callers[c].r
           id == callers[c].q.id
       IN  /\ callers' = [callers EXCEPT ![c].pc = "return", ![c].r.msg.id = id]
           /\ cache' = IF r.shared
                       THEN {IF e.key = r.key THEN [e EXCEPT !.msg.id = id] ELSE e : e \in cache}
                       ELSE cache
    /\ UNCHANGED <<elsewhere, now>>

\* tryGetFromCache returns r and ServeDNS returns it (lines 132, 100-102)
ServeDNS_Hit(c) ==
    /\ callers[c].pc = "return"
    /\ callers' = [callers EXCEPT ![c].pc = "returned"]
    /\ UNCHANGED <<elsewhere, cache, now>>

(* --------------- load_helper.go: ServeDNS and Dispatch ---------------- *)
\* mutant: the RCODE is left as SetReply set it
ServFail_NoRcode(qq) == SetReply(qq)

\* lines 174-176: r = new(dns.Msg); r.SetReply(q); r.Rcode = RcodeServerFailure
ServFail(qq) == [SetReply(qq) EXCEPT !.rcode = RcodeServerFailure]

\* ServeDNS's reply when Dispatch returned err (lines 172-179): the SERVFAIL
\* reply if errors.Is(err, ErrUpstreamsFailed), else Dispatch's nil
ReplyOnError(qq, err) ==
    IF err = "ErrUpstreamsFailed" THEN <<ServFail(qq)>> ELSE <<>>

\* ServeDNS calls Dispatch; Dispatch up to its select (lines 171, 197-237)
Dispatch_Begin ==
    /\ CanServe
    /\ \E qq \in queries : q' = qq
    /\ ctxErr' = "nil"
    /\ inTime' = FALSE
    /\ ret' = NoRet
    /\ StartDispatch
    /\ UNCHANGED <<config, now, cache, probe>>

\* one upstream goroutine of Dispatch, from Exchange's return to its end
\* (lines 203-223)
Dispatch_upstream(u) ==
    /\ pc \in {"select", "returned"}
    /\ u \in upstreams
    /\ up[u] = "running"
    /\ \/ /\ up' = [up EXCEPT ![u] = "failed"]          \* err != nil
          /\ UNCHANGED <<resChan, inTime>>
       \/ /\ up' = [up EXCEPT ![u] = "rejected"]        \* r == nil, err == nil
          /\ UNCHANGED <<resChan, inTime>>
       \/ \E r \in UpstreamReplies(q, u) :              \* r != nil, err == nil
          /\ resChan' = Publish(resChan, r)
          /\ up' = [up EXCEPT ![u] = PublishOutcome(resChan)]
          /\ inTime' = (inTime \/ ctxErr = "nil")
    /\ UNCHANGED <<config, now, cache, pc, q, ctxErr, failChan, notifier, ret, probe>>

\* the notifier goroutine of Dispatch (lines 228-236): failChan = 1 is the
\* closed upstreamFailedNotificationChan
Dispatch_notify ==
    /\ notifier = "waitUpstreams"
    /\ AllReturned
    /\ failChan' = IF NotifyFailed(resChan) THEN 1 ELSE failChan
    /\ notifier' = "done"
    /\ UNCHANGED <<config, now, cache, pc, q, ctxErr, up, resChan, ret, probe, inTime>>

\* Dispatch's select and the rest of ServeDNS (lines 238-245, 172-187); a
\* receive from the closed notification channel leaves it closed
Dispatch_select ==
    /\ pc = "select"
    /\ \E branch \in SelectReady :
      /\ ctxErr' = ctxAfterSelect(ctxErr, branch)
      /\
        CASE branch = "res" ->
               /\ ret' = [NoRet EXCEPT !.r = <<Head(resChan)>>, !.ctxAtSelect = ctxErr]
               /\ resChan' = Tail(resChan)
          [] branch = "failed" ->
               /\ ret' = [r |-> ReplyOnError(q, "ErrUpstreamsFailed"),
                          err |-> "ErrUpstreamsFailed", ctxAtSelect |-> ctxErr]
               /\ UNCHANGED resChan
          [] OTHER ->
               /\ ret' = [r |-> ReplyOnError(q, ctxErr), err |-> ctxErr,
                          ctxAtSelect |-> ctxErr]
               /\ UNCHANGED resChan
    /\ pc' = "returned"
    /\ UNCHANGED <<config, now, cache, q, up, failChan, notifier, probe, inTime>>

(* ------------- main.go and load_helper.go: the start-up --------------- *)
\* what a bind address is made of: a network name, the separator, the rest
Tokens == {"tcp", "udp", "sctp", "://", "addr"}

\* a bind address of conf.Dispatcher.Bind, one element per token
BindStrings == SeqsUpTo(Tokens, MaxBindLen)

Binds == SeqsUpTo(BindStrings, MaxBind)

\* bind lists of well-formed addresses, and one that is not
PlainBinds ==
    {<<>>,
     << <<"udp", "://", "addr">> >>,
     << <<"udp", "://", "addr">>, <<"tcp", "://", "addr">> >>,
     << <<"tcp", "://", "addr">>, <<"addr">> >>,
     << <<"sctp", "://", "addr">> >>}

\* the command line and what it names. helper: the probe or bench flag given;
\* gen: -gen given, and whether the template can be written; wd: -dir or
\* -dir2exe given, and how changing to it ends; configPath: -c; loadOk:
\* LoadConfig succeeds; ca, upstream, bind: the configuration (ca: no CA
\* path, all CA files load, or one does not; upstream: for each upstream
\* whether NewUpstream succeeds)
Args ==
    [showVersion : BOOLEAN,
     helper : {"", "probe-dot-timeout", "probe-tcp-timeout", "bench-ip-list",
               "bench-domain-list"},
     gen : {"", "ok", "fail"},
     wd : {"", "ok", "no executable", "no chdir"},
     configPath : {"", "config.yaml"},
     loadOk : BOOLEAN,
     ca : {"", "ok", "bad"},
     upstream : SeqsUpTo(BOOLEAN, MaxConfUpstreams),
     bind : PlainBinds]

\* mos-chinadns -c config.yaml, with a configuration that loads
DefaultArgs ==
    [showVersion |-> FALSE, helper |-> "", gen |-> "", wd |-> "",
     configPath |-> "config.yaml", loadOk |-> TRUE, ca |-> "",
     upstream |-> <<TRUE>>, bind |-> << <<"udp", "://", "addr">> >>]

NoListeners == [i \in 1..MaxBind |-> "none"]

\* strings.Split(s, "://"): the parts between the separators
RECURSIVE Split(_)
Split(s) ==
    IF \A i \in DOMAIN s : s[i] # "://"
    THEN <<s>>
    ELSE LET i == CHOOSE i \in DOMAIN s :
                    s[i] = "://" /\ \A j \in 1..(i - 1) : s[j] # "://"
         IN  <<SubSeq(s, 1, i - 1)>> \o Split(SubSeq(s, i + 1, Len(s)))

\* mutant: more than one separator is accepted
SplitOk_AtLeast(ss) == Len(ss) >= 2

\* lines 259-261: if len(ss) != 2 { return invalid bind address }
SplitOk(ss) == Len(ss) = 2

\* the switch of lines 266-288: "tcp", "udp" or default
Network(network) ==
    IF network = <<"tcp">> THEN "tcp"
    ELSE IF network = <<"udp">> THEN "udp"
    ELSE "default"

\* mutant: an upstream that fails to initialise is left out
InitDispatcher_SkipFailed(conf) ==
    IF conf.ca = "bad" THEN "caPath2Pool"
    ELSE IF Len(conf.upstream) = 0 THEN "no upstream"
    ELSE "nil"

\* InitDispatcher (dispatcher.go, lines 58-90): the error it returns, "nil"
\* when it returns a dispatcher
InitDispatcher(conf) ==
    IF conf.ca = "bad" THEN "caPath2Pool"
    ELSE IF Len(conf.upstream) = 0 THEN "no upstream"
    ELSE IF \E i \in DOMAIN conf.upstream : ~conf.upstream[i]
         THEN "failed to init upstream"
    ELSE "nil"

\* os.Exit(code), logrus.Fatalf exiting with 1
Exit(code, msg) ==
    /\ mainPc' = "exited"
    /\ exitCode' = code
    /\ logged' = msg

\* main, lines 98-133: -v and the probe and bench helpers
main_helpers ==
    /\ mainPc = "flags"
    /\ IF args.showVersion THEN Exit(0, "version")
       ELSE IF args.helper # "" THEN Exit(0, args.helper)
       ELSE /\ mainPc' = "gen"
            /\ UNCHANGED <<exitCode, logged>>
    /\ UNCHANGED <<dispatching, loader, args, srvPc, bindPos, listeners, errChan, srvErr>>

\* main, lines 136-144: -gen
main_gen ==
    /\ mainPc = "gen"
    /\ IF args.gen = "fail" THEN Exit(1, "can not generate config template")
       ELSE IF args.gen = "ok" THEN Exit(0, "config template generated")
       ELSE /\ mainPc' = "chdir"
            /\ UNCHANGED <<exitCode, logged>>
    /\ UNCHANGED <<dispatching, loader, args, srvPc, bindPos, listeners, errChan, srvErr>>

\* main, lines 153-171: the working directory
main_chdir ==
    /\ mainPc = "chdir"
    /\ IF args.wd = "no executable" THEN Exit(1, "failed to get executable path")
       ELSE IF args.wd = "no chdir"
            THEN Exit(1, "failed to change the current working directory")
       ELSE /\ mainPc' = "LoadConfig"
            /\ UNCHANGED <<exitCode, logged>>
    /\ UNCHANGED <<dispatching, loader, args, srvPc, bindPos, listeners, errChan, srvErr>>

\* main, lines 174-181: the configuration file
main_LoadConfig ==
    /\ mainPc = "LoadConfig"
    /\ IF args.configPath = "" THEN Exit(1, "need a config file")
       ELSE IF ~args.loadOk THEN Exit(1, "can not load config file")
       ELSE /\ mainPc' = "InitDispatcher"
            /\ UNCHANGED <<exitCode, logged>>
    /\ UNCHANGED <<dispatching, loader, args, srvPc, bindPos, listeners, errChan, srvErr>>

\* main, lines 183-198: InitDispatcher, the log level, the call of StartServer
main_InitDispatcher ==
    /\ mainPc = "InitDispatcher"
    /\ IF InitDispatcher(args) # "nil"
       THEN /\ Exit(1, "failed to init dispatcher")
            /\ srvPc' = srvPc
       ELSE /\ mainPc' = "StartServer"
            /\ srvPc' = "called"
            /\ UNCHANGED <<exitCode, logged>>
    /\ UNCHANGED <<dispatching, loader, args, bindPos, listeners, errChan, srvErr>>

\* main, lines 198-202: StartServer has returned
main_exit ==
    /\ mainPc = "StartServer"
    /\ srvPc = "returned"
    /\ IF srvErr.msg # "nil"
       THEN Exit(1, "server exited with err")
       ELSE Exit(0, "main returned")
    /\ UNCHANGED <<dispatching, loader, args, srvPc, bindPos, listeners, errChan, srvErr>>

\* main, lines 75-81: a signal arrives
main_signal ==
    /\ mainPc # "exited"
    /\ Exit(0, "received signal")
    /\ UNCHANGED <<dispatching, loader, args, srvPc, bindPos, listeners, errChan, srvErr>>

\* an error value: its message and, for the error StartServer wraps, the
\* listener it came from and what ListenAndServe returned
Err(msg) == [msg |-> msg, from |-> 0, wraps |-> "nil"]

NoErr == Err("nil")

\* what a ListenAndServe may return
ListenerErrors == {"nil", "listener failed"}

\* the deferred l.Close() of every listener opened so far (lines 272, 282)
CloseAll(ls) == [i \in DOMAIN ls |-> IF ls[i] = "serving" THEN "closed" ELSE ls[i]]

\* StartServer returns err: the deferred calls run
StartServer_return(err) ==
    /\ srvPc' = "returned"
    /\ srvErr' = err
    /\ listeners' = CloseAll(listeners)

\* StartServer, lines 251-255
StartServer_Begin ==
    /\ srvPc = "called"
    /\ IF Len(args.bind) = 0
       THEN StartServer_return(Err("no address to bind"))
       ELSE /\ srvPc' = "loop"
            /\ UNCHANGED <<srvErr, listeners>>
    /\ UNCHANGED <<dispatching, loader, args, mainPc, exitCode, logged, bindPos, errChan>>

\* StartServer, one turn of the loop over the bind addresses (lines 257-297)
StartServer_Bind ==
    /\ srvPc = "loop"
    /\ bindPos < Len(args.bind)
    /\ LET ss == Split(args.bind[bindPos + 1]) IN
       IF ~SplitOk(ss)
       THEN /\ StartServer_return(Err("invalid bind address"))
            /\ bindPos' = bindPos
       ELSE IF Network(ss[1]) = "default"
       THEN /\ StartServer_return(Err("invalid bind protocol"))
            /\ bindPos' = bindPos
       ELSE \E listenOk \in BOOLEAN :
            IF ~listenOk
            THEN /\ StartServer_return(Err("listen"))   \* net.Listen's error
                 /\ bindPos' = bindPos
            ELSE /\ listeners' = [listeners EXCEPT ![bindPos + 1] = "serving"]
                 /\ bindPos' = bindPos + 1
                 /\ srvPc' = IF bindPos + 1 = Len(args.bind) THEN "wait" ELSE "loop"
                 /\ srvErr' = srvErr
    /\ UNCHANGED <<dispatching, loader, args, mainPc, exitCode, logged, errChan>>

\* StartServer, lines 299-301: listenerErr := <-errChan
StartServer_Wait ==
    /\ srvPc = "wait"
    /\ Len(errChan) > 0
    /\ StartServer_return([msg |-> "server listener failed and exited",
                           from |-> Head(errChan).from,
                           wraps |-> Head(errChan).err])
    /\ errChan' = Tail(errChan)
    /\ UNCHANGED <<dispatching, loader, args, mainPc, exitCode, logged, bindPos>>

\* mutant: the report is a plain send, errChan <- err
SendReady_Blocking(ch) == Len(ch) = 0

\* the select of lines 292-295 has a default case: it never waits
SendReady(ch) == TRUE

\* the goroutine of listener i, from ListenAndServe's return to its end
\* (lines 290-296)
Listener_Exit(i) ==
    /\ mainPc # "exited"
    /\ i \in DOMAIN listeners
    /\ listeners[i] \in {"serving", "closed"}
    /\ SendReady(errChan)
    /\ \E e \in ListenerErrors :
          errChan' = Publish(errChan, [from |-> i, err |-> e])
    /\ listeners' = [listeners EXCEPT ![i] = PublishOutcome(errChan)]
    /\ UNCHANGED <<dispatching, loader, args, mainPc, exitCode, logged, srvPc, bindPos,
                   srvErr>>

\* StartServer has not been called
NoServer ==
    /\ srvPc = "none"
    /\ bindPos = 0
    /\ listeners = NoListeners
    /\ errChan = <<>>
    /\ srvErr = NoErr

\* the process while its listeners serve queries: main is in StartServer,
\* which waits for a listener to exit
Serving ==
    /\ args = DefaultArgs
    /\ mainPc = "StartServer"
    /\ exitCode = -1
    /\ logged = ""
    /\ srvPc = "wait"
    /\ bindPos = Len(DefaultArgs.bind)
    /\ listeners = [i \in 1..MaxBind |->
                      IF i <= Len(DefaultArgs.bind) THEN "serving" ELSE "none"]
    /\ errChan = <<>>
    /\ srvErr = NoErr

\* the process while InitDispatcher builds the dispatcher and loads its lists
Initialising ==
    /\ args = DefaultArgs
    /\ mainPc = "InitDispatcher"
    /\ exitCode = -1
    /\ logged = ""
    /\ NoServer

\* no list is being loaded
NoLoad ==
    /\ lines = <<>>
    /\ continueOnInvalidString = FALSE
    /\ lineCounter = 0
    /\ l = {}
    /\ loadRet = "none"

\* the state before any query
Idle ==
    /\ now = 0
    /\ cache = {}
    /\ pc = "idle"
    /\ q = NoQuery
    /\ ctxErr = "nil"
    /\ up = [u \in AllUpstreams |-> "none"]
    /\ resChan = <<>>
    /\ failChan = 0
    /\ notifier = "none"
    /\ ret = NoRet
    /\ probe = NoProbe
    /\ inTime = FALSE
    /\ callers = [c \in Callers |-> NoCaller]

\* the dispatcher InitDispatcher returns (lines 58-90): the cache is off,
\* the upstreams race
Init ==
    /\ minTTL \in 0..MaxMinTTL
    /\ cacheSize = 0
    /\ upstreams \in {1..n : n \in 1..MaxUpstreams}
    /\ queries = PlainQueries
    /\ shapes = PlainShapes
    /\ Idle
    /\ NoLoad
    /\ Serving

\* the dispatcher InitDispatcher returns (lines 58-90): one upstream, the
\* cache on, all queries and record sets
InitCache ==
    /\ minTTL \in 0..MaxMinTTL
    /\ cacheSize \in 1..MaxCacheSize
    /\ upstreams = {1}
    /\ queries = Queries
    /\ shapes = Shapes
    /\ Idle
    /\ NoLoad
    /\ Serving

Next ==
    \/ ServeDNS_Begin
    \/ \E u \in AllUpstreams : dispatch_upstream(u)
    \/ dispatch_notify
    \/ dispatch_cleanup
    \/ dispatch_select
    \/ CtxDone
    \/ Tick

\* the dispatcher of load_helper.go (InitDispatcher, lines 119-165): the
\* upstreams race, all queries
InitD ==
    /\ minTTL = 0
    /\ cacheSize = 0
    /\ upstreams \in {1..n : n \in 1..MaxUpstreams}
    /\ queries = Queries
    /\ shapes = PlainShapes
    /\ Idle
    /\ NoLoad
    /\ Serving

NextD ==
    \/ Dispatch_Begin
    \/ \E u \in AllUpstreams : Dispatch_upstream(u)
    \/ Dispatch_notify
    \/ Dispatch_select
    \/ CtxDone

Spec == Init /\ [][Next]_vars

\* Spec with the scheduling Go gives the goroutines that are ready to run:
\* dispatch in its select, the notifier after each of its two waits. The
\* upstream exchanges, the callers and their contexts are under no obligation.
SpecFair ==
    /\ Spec
    /\ WF_vars(dispatch_select)
    /\ WF_vars(dispatch_notify)
    /\ WF_vars(dispatch_cleanup)

\* SpecFair when every upstream Exchange returns: each upstream goroutine
\* goes on from its Exchange to its end
SpecReturning ==
    /\ SpecFair
    /\ \A u \in AllUpstreams : WF_vars(dispatch_upstream(u))

SpecCache == InitCache /\ [][Next]_vars

SpecD == InitD /\ [][NextD]_vars

\* SpecD with the scheduling Go gives the ready goroutines, when every
\* upstream Exchange returns
SpecDReturning ==
    /\ SpecD
    /\ WF_vars(Dispatch_select)
    /\ WF_vars(Dispatch_notify)
    /\ \A u \in AllUpstreams : WF_vars(Dispatch_upstream(u))

\* the caches tryAddToCache leaves when ServeDNS has served one query
\* (lines 106-121)
FilledCaches ==
    UNION {LET ttl == ClampTTL(GetAnswerMinTTL(m), minTTL)
           IN  tryAddToCache(SetAnswerTTL(m, ttl), ttl, {}, 0, cacheSize)
           : m \in UNION {UpstreamReplies(qq, 1) : qq \in queries}}

\* a dispatcher with its cache on that has served one query; no call is
\* running
InitHits ==
    /\ minTTL \in 0..MaxMinTTL
    /\ cacheSize \in 1..MaxCacheSize
    /\ upstreams = {1}
    /\ queries = Queries
    /\ shapes = Shapes
    /\ now = 0
    /\ cache \in FilledCaches
    /\ pc = "idle"
    /\ q = NoQuery
    /\ ctxErr = "nil"
    /\ up = [u \in AllUpstreams |-> "none"]
    /\ resChan = <<>>
    /\ failChan = 0
    /\ notifier = "none"
    /\ ret = NoRet
    /\ probe = NoProbe
    /\ inTime = FALSE
    /\ callers = [c \in Callers |-> NoCaller]
    /\ NoLoad
    /\ Serving

NextHits ==
    \/ \E c \in Callers : ServeDNS_Call(c)
    \/ \E c \in Callers : tryGetFromCache_Get(c)
    \/ \E c \in Callers : tryGetFromCache_SetId(c)
    \/ \E c \in Callers : ServeDNS_Hit(c)
    \/ Tick

SpecHits == InitHits /\ [][NextHits]_vars

(* --------------- load_helper.go: NewListFormReader -------------------- *)
\* the bytes a line is made of: a space, the comment sign, a letter, a dot
Alphabet == {" ", "#", "a", "."}

\* a line as s.Text() returns it, one element per byte
Lines == SeqsUpTo(Alphabet, MaxLineLen)

\* the lines of the reader r, as the bufio.Scanner splits them
Files == SeqsUpTo(Lines, MaxLines)

RECURSIVE TrimLeft(_)
TrimLeft(s) == IF s # <<>> /\ Head(s) = " " THEN TrimLeft(Tail(s)) ELSE s

RECURSIVE TrimRight(_)
TrimRight(s) ==
    IF s # <<>> /\ s[Len(s)] = " " THEN TrimRight(SubSeq(s, 1, Len(s) - 1)) ELSE s

\* strings.TrimSpace
TrimSpace(s) == TrimRight(TrimLeft(s))

\* strings.HasPrefix
HasPrefix(s, prefix) ==
    Len(s) >= Len(prefix) /\ SubSeq(s, 1, Len(prefix)) = prefix

\* dns.Fqdn: the name with its closing dot
Fqdn(s) == IF s # <<>> /\ s[Len(s)] = "." THEN s ELSE Append(s, ".")

\* dns.IsDomainName: the root, or labels none of which is empty
IsDomainName(s) ==
    \/ s = <<".">>
    \/ /\ s # <<>>
       /\ Head(s) # "."
       /\ \A i \in 1..(Len(s) - 1) : ~(s[i] = "." /\ s[i + 1] = ".")

\* lines 49-52: the line is ignored
Ignored(line) == Len(line) = 0 \/ HasPrefix(line, <<"#">>)

\* one turn of the loop of NewListFormReader, s.Scan() being true (lines
\* 45-63)
NewListFormReader_Scan ==
    /\ loadRet = "running"
    /\ lineCounter < Len(lines)
    /\ lineCounter' = lineCounter + 1
    /\ LET line == TrimSpace(lines[lineCounter + 1])
           fqdn == Fqdn(line)
       IN  IF Ignored(line)
           THEN UNCHANGED <<l, loadRet>>                    \* continue
           ELSE IF ~IsDomainName(fqdn) /\ ~continueOnInvalidString
                THEN /\ loadRet' = "err"                    \* return nil, err
                     /\ l' = l
                ELSE /\ l' = l \cup {fqdn}                  \* l.Add(fqdn)
                     /\ loadRet' = loadRet
    /\ UNCHANGED <<dispatching, starting, lines, continueOnInvalidString>>

\* s.Scan() is false: return l, nil (line 66)
NewListFormReader_Return ==
    /\ loadRet = "running"
    /\ lineCounter = Len(lines)
    /\ loadRet' = "list"
    /\ UNCHANGED <<dispatching, starting, lines, continueOnInvalidString, lineCounter, l>>

\* NewListFormReader(r, continueOnInvalidString) is called (lines 40-44)
InitList ==
    /\ minTTL = 0
    /\ cacheSize = 0
    /\ upstreams = {1}
    /\ queries = PlainQueries
    /\ shapes = PlainShapes
    /\ Idle
    /\ Initialising
    /\ lines \in Files
    /\ continueOnInvalidString \in BOOLEAN
    /\ lineCounter = 0
    /\ l = {}
    /\ loadRet = "running"

NextList ==
    \/ NewListFormReader_Scan
    \/ NewListFormReader_Return

SpecList == InitList /\ [][NextList]_vars

(* ----------------------- the start-up specifications ------------------ *)
\* the dispatcher while the process starts: no query yet
NotServing ==
    /\ minTTL = 0
    /\ cacheSize = 0
    /\ upstreams = {1}
    /\ queries = PlainQueries
    /\ shapes = PlainShapes
    /\ Idle
    /\ NoLoad

\* main has called d.StartServer() (main.go, line 198)
InitServer ==
    /\ NotServing
    /\ \E b \in Binds : args = [DefaultArgs EXCEPT !.bind = b]
    /\ mainPc = "StartServer"
    /\ exitCode = -1
    /\ logged = ""
    /\ srvPc = "called"
    /\ bindPos = 0
    /\ listeners = NoListeners
    /\ errChan = <<>>
    /\ srvErr = NoErr

NextServer ==
    \/ StartServer_Begin
    \/ StartServer_Bind
    \/ StartServer_Wait
    \/ \E i \in 1..MaxBind : Listener_Exit(i)

SpecServer == InitServer /\ [][NextServer]_vars

\* SpecServer with the scheduling Go gives the goroutines that are ready to
\* run: StartServer, and the goroutine of a listener that was closed, whose
\* ListenAndServe returns. A listener that serves is under no obligation.
SpecServerFair ==
    /\ SpecServer
    /\ WF_vars(StartServer_Begin)
    /\ WF_vars(StartServer_Bind)
    /\ WF_vars(StartServer_Wait)
    /\ \A i \in 1..MaxBind : WF_vars(listeners[i] = "closed" /\ Listener_Exit(i))

\* the process is started (main.go, line 72)
InitMain ==
    /\ NotServing
    /\ args \in Args
    /\ mainPc = "flags"
    /\ exitCode = -1
    /\ logged = ""
    /\ NoServer

NextMain ==
    \/ main_helpers
    \/ main_gen
    \/ main_chdir
    \/ main_LoadConfig
    \/ main_InitDispatcher
    \/ main_exit
    \/ main_signal
    \/ StartServer_Begin
    \/ StartServer_Bind
    \/ StartServer_Wait
    \/ \E i \in 1..MaxBind : Listener_Exit(i)

SpecMain == InitMain /\ [][NextMain]_vars

(* ============================== claims ================================ *)
Returned == pc = "returned"

Dispatched == \A u \in upstreams : up[u] # "none"

Running == {u \in upstreams : up[u] = "running"}

\* the call returned a reply that an upstream of this dispatch published
ReturnedWinner ==
    /\ Returned
    /\ ret.err = "nil"
    /\ Len(ret.r) = 1
    /\ \E u \in upstreams : ret.r[1].from = {u} /\ up[u] = "sent"

(* C1 as stated: whenever some Exchange returned an accepted reply before the
   context was done, dispatch returns an accepted reply and no error. *)
C1_Original == (Returned /\ Dispatched /\ inTime) => ReturnedWinner

(* C1, amended: if some Exchange returned an accepted reply before the context
   was done and the context is still not done when dispatch's select chooses,
   dispatch returns a reply that an upstream of this dispatch published, and
   no error. *)
C1_RaceCorrectness ==
    (Returned /\ Dispatched /\ inTime /\ ret.ctxAtSelect = "nil") => ReturnedWinner

\* two upstreams, one failed, the other one's reply returned
C1_Witness ==
    /\ ReturnedWinner /\ inTime /\ ret.ctxAtSelect = "nil"
    /\ \E u \in upstreams : up[u] = "failed"

\* every upstream of the dispatch ended with an error or without a reply
AllFailed == Dispatched /\ \A u \in upstreams : up[u] \in {"failed", "rejected"}

\* ServeDNS returned ErrUpstreamsFailed with a SERVFAIL reply of the query's
\* id and the question section qs
ServFailReturned(qs) ==
    /\ ret.err = "ErrUpstreamsFailed"
    /\ Len(ret.r) = 1
    /\ ret.r[1].rcode = RcodeServerFailure
    /\ ret.r[1].id = q.id
    /\ ret.r[1].question = qs

\* the question section reduced to its first entry
FirstQuestion(qs) == IF qs = <<>> THEN <<>> ELSE <<Head(qs)>>

(* C2 as stated: all upstreams failed or were filtered out and the context is
   not done: ServeDNS returns ErrUpstreamsFailed and a SERVFAIL reply whose id
   and question section are the query's. *)
C2_Original ==
    (Returned /\ AllFailed /\ ctxErr = "nil") => ServFailReturned(q.question)

(* C2, amended: all upstreams failed or were filtered out and the context is
   not done: ServeDNS returns ErrUpstreamsFailed and a SERVFAIL reply with the
   query's id and the query's first question (the whole question section of a
   query with at most one question). *)
C2_NoWinner ==
    (Returned /\ AllFailed /\ ctxErr = "nil")
        => ServFailReturned(FirstQuestion(q.question))

\* two upstreams, one failed and one filtered out, SERVFAIL for one question
C2_Witness ==
    /\ Returned /\ AllFailed /\ ctxErr = "nil"
    /\ \E u, v \in upstreams : up[u] = "failed" /\ up[v] = "rejected"
    /\ Len(q.question) = 1
    /\ ServFailReturned(q.question)

(* C3 as stated: when dispatch ends with the context's error (cancelled or
   deadline elapsed), ServeDNS yields the SERVFAIL reply mirroring the query,
   never an absent reply. *)
C3_CtxServFail ==
    (Returned /\ ret.err \in {"Canceled", "DeadlineExceeded"})
        => /\ Len(ret.r) = 1
           /\ ret.r[1].rcode = RcodeServerFailure
           /\ ret.r[1].id = q.id
           /\ ret.r[1].question = FirstQuestion(q.question)

(* C4 as stated: the cache is on and holds a live entry for the question of a
   one-question query without ECS: ServeDNS returns the stored reply under the
   query's id and starts no upstream exchange. *)
C4_CacheHit ==
    (pc # "idle" /\ cacheSize > 0 /\ Len(q.question) = 1 /\ ~q.ecs /\ probe.live)
        => /\ probe.did = "hit"
           /\ ~Dispatched
           /\ Returned /\ Len(ret.r) = 1 /\ ret.r[1].id = q.id

(* C5 as stated: a query with an ECS option is never answered from the cache,
   and the call serving it never changes the cache. *)
C5_EcsBypass ==
    [][/\ (q'.ecs => probe'.did # "hit")
       /\ ((q.ecs /\ pc = "select" /\ pc' = "returned") => cache' = cache)]_vars

(* C6 as stated: with the cache on, a query whose question count is not 1 is
   treated as a cache miss without reading a question entry and without
   faulting, and goes to dispatch. *)
C6_NotEligible ==
    (pc # "idle" /\ cacheSize > 0 /\ Len(q.question) # 1)
        => (probe.did = "skip" /\ pc # "panicked" /\ Dispatched)

(* C7: every cache entry is a reply with exactly one question and RCODE
   NOERROR; a returned reply with another RCODE or question count is in no
   entry. *)
C7_InsertEligibility ==
    /\ \A e \in cache :
          /\ Len(e.msg.question) = 1
          /\ e.msg.rcode = RcodeSuccess
          /\ e.key = e.msg.question[1]
    /\ (Returned /\ Len(ret.r) = 1
          /\ (ret.r[1].rcode # RcodeSuccess \/ Len(ret.r[1].question) # 1))
        => \A e \in cache : e.msg # ret.r[1]

\* a SERVFAIL reply was returned fresh while the cache holds an entry
C7_Witness ==
    /\ Returned /\ Dispatched /\ Len(ret.r) = 1
    /\ ret.r[1].rcode = RcodeServerFailure
    /\ Len(ret.r[1].question) = 1
    /\ cache # {}

\* the TTLs of all resource records of message m
AllTTLs(m) == Range(m.answer) \cup Range(m.extra)

(* C8: every reply ServeDNS returns without error, fresh or from the cache,
   has every resource record's TTL >= min_ttl. *)
C8_TTLFloor ==
    (Returned /\ ret.err = "nil" /\ Len(ret.r) = 1)
        => \A t \in AllTTLs(ret.r[1]) : t >= minTTL

\* a reply with records came from the cache under a positive min_ttl
C8_Witness ==
    /\ Returned /\ ret.err = "nil" /\ Len(ret.r) = 1
    /\ probe.did = "hit"
    /\ minTTL > 0
    /\ ret.r[1].answer # <<>> /\ ret.r[1].extra # <<>>

\* x is the minimum TTL of m's Answer section, 0 for an empty section
IsMinAnswerTTL(m, x) ==
    IF Len(m.answer) = 0 THEN x = 0
    ELSE /\ \E i \in DOMAIN m.answer : m.answer[i] = x
         /\ \A i \in DOMAIN m.answer : m.answer[i] >= x

(* C9: on a winning reply m, with ttl = max(minimum answer TTL of m, min_ttl),
   the returned reply is m with every TTL set to ttl, and when m is eligible
   the cache then holds that rewritten reply with expiry now + ttl. *)
C9_RewriteThenInsert ==
    [][(pc = "select" /\ pc' = "returned" /\ ret'.err = "nil") =>
        LET m == Head(resChan) IN
        \E low \in TTLs :
            /\ IsMinAnswerTTL(m, low)
            /\ LET ttl == IF low >= minTTL THEN low ELSE minTTL IN
               /\ Len(ret'.r) = 1
               /\ Len(ret'.r[1].answer) = Len(m.answer)
               /\ Len(ret'.r[1].extra) = Len(m.extra)
               /\ \A t \in AllTTLs(ret'.r[1]) : t = ttl
               /\ (cacheSize > 0 /\ Len(m.question) = 1 /\ m.rcode = RcodeSuccess)
                    => \E e \in cache' :
                          /\ e.key = m.question[1]
                          /\ e.msg = ret'.r[1]
                          /\ e.expireAt = now + ttl]_vars

\* a fresh reply whose smallest answer TTL was below min_ttl is returned and
\* cached with the lifetime min_ttl
C9_Witness ==
    /\ Returned /\ Dispatched /\ Len(ret.r) = 1
    /\ minTTL > 0
    /\ Len(ret.r[1].answer) > 1
    /\ \E e \in cache : e.msg = ret.r[1] /\ e.expireAt = now + minTTL

C11_FailureIsolation ==
    /\ (pc = "select" /\ failChan > 0) => AllFailed
    /\ (Returned /\ ret.err = "ErrUpstreamsFailed") => AllFailed

\* one upstream has failed, the other is still in its Exchange, and dispatch
\* is still waiting with no failure notified
C11_Witness ==
    /\ pc = "select"
    /\ failChan = 0
    /\ \E u, v \in upstreams : up[u] \in {"failed", "rejected"} /\ up[v] = "running"

\* upstream u publishes an accepted reply on the empty result slot
PublishesFirst(u) == dispatch_upstream(u) /\ up'[u] = "sent"

(* C12: the tie-break is a pure race. The reply dispatch returns is the one
   published first on the result slot: when dispatch takes a reply, exactly
   one upstream has published, and the reply is that upstream's. No upstream
   is preferred: while the slot is empty every upstream still in its Exchange
   can be the one that publishes next. *)
C12_PureRace ==
    /\ []((pc = "select" /\ resChan = <<>>)
            => \A u \in Running : ENABLED PublishesFirst(u))
    /\ [][(pc = "select" /\ pc' = "returned" /\ ret'.err = "nil") =>
            \E u \in upstreams :
                /\ up[u] = "sent"
                /\ \A v \in upstreams \ {u} : up[v] # "sent"
                /\ Len(ret'.r) = 1 /\ ret'.r[1].from = {u}]_vars

\* both upstreams produced an accepted reply and the second one's was returned
C12_Witness ==
    /\ ReturnedWinner
    /\ ret.r[1].from = {MaxUpstreams}
    /\ up[1] = "dropped"

(* C16: the failure notification and an undelivered reply are never both
   pending: while dispatch waits in its select, if the result slot holds a
   reply the failure has not been notified; and dispatch never returns
   ErrUpstreamsFailed when some upstream of the dispatch published a reply. *)
C16_NeverBothPending ==
    /\ (pc = "select" /\ Len(resChan) > 0) => failChan = 0
    /\ (Returned /\ ret.err = "ErrUpstreamsFailed")
          => \A u \in upstreams : up[u] # "sent"

\* every upstream has returned, one of them published, the notifier has made
\* its test and dispatch has not yet chosen
C16_Witness ==
    /\ pc = "select"
    /\ Len(resChan) > 0
    /\ AllReturned
    /\ notifier = "waitDispatch"
    /\ \E u \in upstreams : up[u] \in {"failed", "rejected"}

\* the upstreams of the dispatch whose reply was placed in the result slot
Senders == {u \in upstreams : up[u] = "sent"}

(* C17 as stated: an upstream task never blocks on the result slot, and once
   a reply has been published for a dispatch no later accepted reply of the
   same dispatch is placed in the result slot. *)
C17_Original ==
    /\ \A u \in Running : ENABLED Dispatch_upstream(u)
    /\ Cardinality(Senders) <= 1

(* C17, amended: an upstream task never blocks on the result slot, so it ends
   as soon as its Exchange returns whether or not dispatch is still reading;
   a reply published while the slot is occupied is dropped: the slot's
   reply is never replaced, only taken by dispatch, and until dispatch has
   taken it no second reply is placed. After dispatch took the winner a later
   accepted reply may be placed in the emptied slot. *)
C17_NonBlockingPublish ==
    /\ [](\A u \in Running : ENABLED Dispatch_upstream(u))
    /\ [](pc = "select" => Cardinality(Senders) <= 1)
    /\ [][Len(resChan) > 0 => resChan' \in {resChan, <<>>}]_vars

\* dispatch has returned the winner and the later accepted reply of the other
\* upstream sits in the emptied result slot
C17_Witness ==
    /\ Returned /\ ret.err = "nil"
    /\ Len(resChan) = 1
    /\ Cardinality(upstreams) > 1
    /\ Senders = upstreams

\* the notifier goroutine releases the dispatch's pooled resources
Release == notifier = "waitDispatch" /\ notifier' = "done"

\* the pooled resources of the dispatch have been released
Released == notifier = "done"

(* C19: the result channel, the notification channel and the request logger
   of a dispatch are released once, in a state where dispatch has returned
   and every upstream goroutine of the dispatch has finished; nothing sends
   on, receives from or logs through them after the release; and once every
   upstream goroutine has finished the release does happen. *)
C19_ReleaseOrdering ==
    /\ [][(~Released /\ Released') => Release]_vars
    /\ [][Release => (pc = "returned" /\ Running = {})]_vars
    /\ [](Released => (pc = "returned" /\ Running = {}))
    /\ [][(Released /\ Released') => UNCHANGED <<resChan, failChan, up, pc>>]_vars
    /\ ((notifier = "waitUpstreams" /\ AllReturned) ~> Released)

\* released after dispatch gave up on the context while an upstream, still
\* in its Exchange then, published later
C19_Witness ==
    /\ Released
    /\ ret.err \in {"Canceled", "DeadlineExceeded"}
    /\ \E u \in upstreams : up[u] = "sent"
    /\ ~inTime

(* C20 as stated: when the cleanup releases the result channel and the
   notification channel to their pools, neither holds a pending value. *)
C20_Original ==
    Released => (resChan = <<>> /\ failChan = 0)

(* C20, amended: when the cleanup releases the two channels, at most one of
   them holds a pending value, and it is a value of this dispatch: either one
   reply of an upstream of this dispatch, carrying the query's id, that
   dispatch did not take (it returned on the context, or the reply was
   published after the winner was taken), or one Failed notice that dispatch
   did not take (it returned a winner or the context's error before). After
   ErrUpstreamsFailed both are empty. *)
C20_ReleaseState ==
    Released =>
        /\ Len(resChan) <= 1 /\ failChan <= 1
        /\ ~(resChan # <<>> /\ failChan > 0)
        /\ resChan # <<>> =>
              /\ resChan[1].id = q.id
              /\ \E u \in Senders : resChan[1].from = {u}
              /\ ret.err \in {"Canceled", "DeadlineExceeded"}
                    \/ Cardinality(Senders) > 1
        /\ failChan > 0 => ret.err # "ErrUpstreamsFailed"
        /\ ret.err = "ErrUpstreamsFailed" => (resChan = <<>> /\ failChan = 0)

\* the only upstream answered, dispatch returned its reply, and the channels
\* are released with the Failed notice the notifier raised afterwards
C20_Witness ==
    /\ Released
    /\ ReturnedWinner
    /\ Cardinality(upstreams) = 1
    /\ failChan = 1

CtxErrors == {"Canceled", "DeadlineExceeded"}

(* C18 as stated: if the context is done while no reply is in the result slot
   and not all upstreams have finished, dispatch returns the context's error.
   (No accepted reply was produced before the context was done, the context
   was done when dispatch chose, and an upstream was still in its Exchange
   when the context became done: it is still running or has published
   since.) *)
C18_Original ==
    (/\ Returned /\ Dispatched
     /\ ret.ctxAtSelect # "nil"
     /\ ~inTime
     /\ \E u \in upstreams : up[u] \in {"running", "sent", "dropped"})
        => ret.err \in CtxErrors

(* C18, amended: dispatch always returns once its context is done, even if
   some upstream Exchange never returns, and it returns once every upstream
   has returned, even when the context is never done. It returns the
   context's error when it chooses while the context is done, no reply is in
   the result slot and not all upstreams have finished; a reply published (or
   the failure notified) after the context became done and before dispatch
   chooses may be returned instead. *)
C18_Terminates ==
    /\ (pc = "select" /\ ctxErr # "nil") ~> Returned
    /\ (pc = "select" /\ AllReturned) ~> Returned
    /\ [][(/\ pc = "select" /\ pc' = "returned"
           /\ ctxErr # "nil" /\ resChan = <<>> /\ ~AllReturned)
            => (ret'.err = ctxErr /\ ret'.r = <<>>)]_vars

\* dispatch returned the context's error while every upstream is still in
\* its Exchange
C18_Witness ==
    /\ Returned
    /\ ret.err \in CtxErrors
    /\ Cardinality(upstreams) > 1
    /\ Running = upstreams

\* a name with an empty label: two dots in a row, or a leading dot that is
\* not the root
EmptyLabel(d) ==
    \/ (Len(d) > 1 /\ d[1] = ".")
    \/ \E i \in 1..(Len(d) - 1) : d[i] = "." /\ d[i + 1] = "."

\* the lines read so far that hold an invalid domain
InvalidRead ==
    {i \in 1..lineCounter :
        LET t == TrimSpace(lines[i]) IN
        t # <<>> /\ t[1] # "#" /\ EmptyLabel(t)}

(* C14 as stated: NewListFormReader adds nothing for blank lines and for
   lines starting with '#'; an invalid domain line is never added to the
   list: with continueOnInvalidString it is skipped and loading goes on with
   the next line, without it loading stops with an error and no list is
   returned. *)
C14_DomainSetLoading ==
    /\ \A d \in l : d # <<>> /\ d[1] # "#" /\ ~EmptyLabel(d)
    /\ (continueOnInvalidString /\ lineCounter = Len(lines)) => loadRet # "err"
    /\ (~continueOnInvalidString /\ InvalidRead # {}) => loadRet = "err"
    /\ loadRet = "err" => (~continueOnInvalidString /\ lineCounter \in InvalidRead)

\* the bind address has the form network://addr: one separator
WellFormed(s) == Cardinality({i \in DOMAIN s : s[i] = "://"}) = 1

\* the network of a well-formed bind address is one StartServer knows
KnownNetwork(s) == Len(s) >= 2 /\ s[1] \in {"tcp", "udp"} /\ s[2] = "://"

\* StartServer takes a step of its own
StartServerStep == srvPc' # srvPc \/ bindPos' # bindPos

(* C13: StartServer always returns a non-nil error. It returns at once on an
   empty bind list, on a bind address not of the form network://addr, on an
   unknown network and on a listen failure; with every address listening it
   returns only after a listener has exited, with an error wrapping the exit
   of the first listener that exited. *)
C13_StartServer ==
    /\ [](srvPc = "returned" => srvErr.msg # "nil")
    /\ []((srvPc = "returned" /\ args.bind = <<>>)
            <=> srvErr.msg = "no address to bind")
    /\ [][(srvPc = "loop" /\ StartServerStep) =>
            LET s == args.bind[bindPos + 1]
                failsWith(msg) == srvPc' = "returned" /\ srvErr'.msg = msg
                                    /\ bindPos' = bindPos
            IN  /\ ~WellFormed(s) => failsWith("invalid bind address")
                /\ (WellFormed(s) /\ ~KnownNetwork(s))
                      => failsWith("invalid bind protocol")
                /\ (WellFormed(s) /\ KnownNetwork(s))
                      => \/ failsWith("listen")
                         \/ /\ listeners'[bindPos + 1] = "serving"
                            /\ bindPos' = bindPos + 1
                            /\ srvPc' # "returned"]_vars
    /\ [](srvPc = "wait" =>
            /\ bindPos = Len(args.bind)
            /\ \A i \in 1..Len(args.bind) : listeners[i] # "none")
    /\ [][(srvPc = "wait" /\ srvPc' = "returned") =>
            \E i \in 1..Len(args.bind) :
                /\ listeners[i] = "sent"
                /\ \A j \in 1..Len(args.bind) : j # i => listeners[j] # "sent"
                /\ srvErr'.msg = "server listener failed and exited"
                /\ srvErr'.from = i]_vars

\* two listeners: the second exited first, ListenAndServe returning nil, the
\* first one's exit was dropped, and StartServer returned the error wrapping
\* the second one's
C13_Witness ==
    /\ srvPc = "returned"
    /\ srvErr.msg = "server listener failed and exited"
    /\ srvErr.from = 2 /\ srvErr.wraps = "nil"
    /\ listeners[1] = "dropped"

\* the configuration file is named and loads
ConfigOk == args.configPath # "" /\ args.loadOk

\* every CA file loads, there is an upstream, every upstream initialises
DispatcherOk ==
    /\ args.ca # "bad"
    /\ Len(args.upstream) > 0
    /\ \A i \in DOMAIN args.upstream : args.upstream[i]

\* a flag that makes main do something else than serve
HelperMode == args.showVersion \/ args.helper # "" \/ args.gen # ""

\* main called os.Exit or logrus.Fatal itself (no signal ended the process)
ExitedByMain == mainPc = "exited" /\ logged # "received signal"

(* C15: no listener is started unless the configuration loaded and
   InitDispatcher succeeded; InitDispatcher fails, and main exits non-zero
   without calling StartServer, when there is no upstream, when an upstream
   fails to initialise or when a CA file does not load; the process exits
   non-zero on every start-up failure and when StartServer returns (a
   listener failed), and exits 0 for -v and for a successful -gen, without
   starting a listener. *)
C15_StartupOrdering ==
    /\ []((srvPc # "none" \/ \E i \in DOMAIN listeners : listeners[i] # "none")
            => (ConfigOk /\ DispatcherOk /\ ~HelperMode))
    /\ [][(mainPc = "InitDispatcher" /\ ~DispatcherOk /\ ExitedByMain')
            => (/\ exitCode' = 1
                /\ logged' = "failed to init dispatcher"
                /\ srvPc' = "none")]_vars
    /\ [](mainPc = "StartServer" => DispatcherOk)
    /\ [](ExitedByMain =>
            /\ args.showVersion => exitCode = 0
            /\ (~args.showVersion /\ args.helper = "" /\ args.gen = "ok")
                  => exitCode = 0
            /\ (~args.showVersion /\ args.helper = "" /\ args.gen = "fail")
                  => exitCode # 0
            /\ ~HelperMode => exitCode # 0
            /\ HelperMode => srvPc = "none")
    /\ [][(mainPc = "StartServer" /\ ExitedByMain')
            => (srvPc = "returned" /\ exitCode' # 0)]_vars

\* both listeners were started, one failed, StartServer returned its error
\* and the process exited with code 1
C15_Witness ==
    /\ ExitedByMain
    /\ exitCode = 1
    /\ logged = "server exited with err"
    /\ srvErr.msg = "server listener failed and exited"
    /\ args.ca = "ok"
    /\ Len(args.upstream) = MaxConfUpstreams

\* the goroutines dispatch spawned have all ended, the cleanup included
AllEnded == Running = {} /\ notifier = "done"

\* what dispatch returns through each case of its select: a reply,
\* ErrUpstreamsFailed, the context's error
SelectOutcomes == {"nil", "ErrUpstreamsFailed"} \cup CtxErrors

(* C21: when every upstream Exchange returns, every goroutine a dispatch
   spawned (the upstream goroutines and the notifier) ends and the cleanup
   runs, whichever case of its select dispatch returned through; dispatch may
   return while upstream goroutines are still running. *)
C21_NoGoroutineLeak ==
    /\ (notifier = "waitUpstreams") ~> AllEnded
    /\ \A e \in SelectOutcomes :
          (Returned /\ Dispatched /\ ret.err = e) ~> AllEnded
    /\ \A u \in AllUpstreams : (up[u] = "running") ~> (up[u] # "running")

\* the same of Dispatch in load_helper.go, whose notifier has no cleanup to
\* run: it ends after its test of the result channel (under SpecDReturning)
DispatchGoroutinesEnd ==
    /\ (notifier = "waitUpstreams") ~> AllEnded
    /\ (pc = "select") ~> Returned

\* dispatch returned the context's error; both upstreams published after the
\* context was done, the second reply was dropped, and the cleanup has run
C21_Witness ==
    /\ AllEnded
    /\ ret.err \in CtxErrors
    /\ Cardinality(upstreams) > 1
    /\ ~inTime
    /\ \A u \in upstreams : up[u] \in {"sent", "dropped", "failed"}
    /\ \E u \in upstreams : up[u] = "dropped"

\* ServeDNS returned the error of its dispatch
FailedDispatch == Returned /\ Dispatched /\ ret.err # "nil"

(* C22 as stated: whenever dispatch returns an error, the set of cache
   entries after the ServeDNS call equals the set before it. *)
C22_Original ==
    FailedDispatch => cache = probe.before

(* C22, amended: whenever dispatch returns an error (all upstreams failed,
   cancelled or timed out), ServeDNS returns no reply, rewrites no TTL and
   inserts nothing: the failing return leaves the cache as it is, and the
   cache after the call differs from the cache before it at most by the
   expired entry of the query's first question, which the lookup that missed
   evicted; the entries that are live at any time are the same. *)
C22_FailedDispatchFrame ==
    /\ [][(pc = "select" /\ pc' = "returned" /\ ret'.err # "nil")
            => (cache' = cache /\ ret'.r = <<>>)]_vars
    /\ [][(pc = "select" /\ pc' = "select") => cache' = cache]_vars
    /\ [](FailedDispatch =>
            /\ ret.r = <<>>
            /\ cache \subseteq probe.before
            /\ \A t \in 0..MaxTime : Live(cache, t) = Live(probe.before, t) \/ t < now
            /\ \A e \in probe.before \ cache :
                  /\ probe.did = "miss"
                  /\ e.key = q.question[1]
                  /\ e.expireAt <= now)

\* every upstream failed while the cache held an entry: ServeDNS returned
\* ErrUpstreamsFailed and the cache holds what it held
C22_Witness ==
    /\ FailedDispatch
    /\ ret.err = "ErrUpstreamsFailed"
    /\ cache # {}
    /\ cache = probe.before

\* the call of caller c holds a reply of the cache
Holds(c) == callers[c].pc \in {"setId", "return", "returned"}

\* message m with its transaction id left out
SansId(m) == [m EXCEPT !.id = 0]

(* C23: a cache hit rewrites the id on the caller's own copy. Concurrent
   ServeDNS calls that hit the same key with different ids each return, and
   go on holding, a reply with their own query's id that is otherwise the
   stored message; no hit changes the cache: the stored entry, its id and its
   TTLs stay as they are for as long as the entry is stored. *)
C23_HitsDoNotMutate ==
    /\ [](\A c \in Callers :
            callers[c].pc \in {"return", "returned"}
                => Deref(callers[c].r, cache).id = callers[c].q.id)
    /\ [][\A c \in Callers :
            (callers[c].pc = "probe" /\ Holds(c)')
                => /\ cache' = cache
                   /\ \E e \in CacheGet(cache, callers[c].q.question[1], now) :
                         Deref(callers'[c].r, cache') = e.msg]_vars
    /\ [][\A c \in Callers :
            (Holds(c) /\ Holds(c)')
                => /\ SansId(Deref(callers'[c].r, cache'))
                        = SansId(Deref(callers[c].r, cache))
                   /\ callers'[c].q = callers[c].q]_vars
    /\ [][/\ cache' \subseteq cache
          /\ \A e \in cache \ cache' : e.expireAt <= now]_vars

\* two calls with different ids hit the same entry and both have returned;
\* the entry is still stored, with the id it was stored with
C23_Witness ==
    /\ callers[1].pc = "returned"
    /\ callers[2].pc = "returned"
    /\ callers[1].q.id # callers[2].q.id
    /\ callers[1].q.question[1] = callers[2].q.question[1]
    /\ SansId(callers[1].r.msg) = SansId(callers[2].r.msg)
    /\ \E e \in Live(cache, now) : SansId(e.msg) = SansId(callers[1].r.msg)

\* the goroutine of listener i is in ListenAndServe
InListenAndServe(i) == listeners[i] \in {"serving", "closed"}

\* the goroutine of listener i has ended
ListenerEnded(i) == listeners[i] \in {"sent", "dropped"}

\* err wraps the exit that is first in ch
Reports(err, ch) ==
    /\ err.msg = "server listener failed and exited"
    /\ err.from = Head(ch).from
    /\ err.wraps = Head(ch).err

(* C24 as stated: a listener that fails before StartServer reaches its
   receive still causes StartServer to return that error. *)
C24_Original ==
    [][(srvPc = "loop" /\ errChan # <<>> /\ srvPc' = "returned")
        => Reports(srvErr', errChan)]_vars

(* C24, amended: the report of a listener goroutine never blocks: it is a
   non-blocking send on a one-slot buffered channel, so every listener
   goroutine whose ListenAndServe returns ends, the first exit is kept in
   the slot and the exits after it are dropped while it is there. A
   listener that fails before StartServer reaches its receive makes
   StartServer return: with that listener's error when it reaches the
   receive, or with the bind or listen error of a later address when the
   loop fails first, the listener's error then staying unread in the
   channel. *)
C24_ListenerErrors ==
    /\ [](\A i \in 1..MaxBind : InListenAndServe(i) => ENABLED Listener_Exit(i))
    /\ [](Len(errChan) <= 1)
    /\ [][\A i \in 1..MaxBind :
            (InListenAndServe(i) /\ ListenerEnded(i)') =>
                IF errChan = <<>>
                THEN listeners'[i] = "sent" /\ Len(errChan') = 1
                                            /\ errChan'[1].from = i
                ELSE listeners'[i] = "dropped" /\ errChan' = errChan]_vars
    /\ [][(srvPc = "wait" /\ srvPc' = "returned")
            => (errChan # <<>> /\ Reports(srvErr', errChan))]_vars
    /\ [][(srvPc = "loop" /\ srvPc' = "returned")
            => (/\ srvErr'.msg \in {"invalid bind address", "invalid bind protocol",
                                    "listen"}
                /\ errChan' = errChan)]_vars
    /\ (srvPc \in {"loop", "wait"} /\ errChan # <<>>) ~> (srvPc = "returned")
    /\ \A i \in 1..MaxBind : (listeners[i] = "closed") ~> ListenerEnded(i)

\* the first listener failed and the second failed while that error was in
\* the slot, before StartServer received it: StartServer returned the first
\* one's error and the second goroutine ended with its report dropped
C24_Witness ==
    /\ srvPc = "returned"
    /\ srvErr.from = 1 /\ srvErr.wraps = "listener failed"
    /\ listeners[1] = "sent"
    /\ listeners[2] = "dropped"
    /\ errChan = <<>>

====
